---- MODULE Spec2Model ----
(***************************************************************************)
(* Model of the promotion-rule validator                                   *)
(* (saleor/graphql/discount/mutations/promotion/validators.py), of the     *)
(* PromotionRuleUpdate mutation (promotion_rule_update.py) and of the      *)
(* flat-rate order tax calculator (saleor/tax/calculations/order.py).      *)
(*                                                                         *)
(* Four specifications share the variables:                                *)
(*   Spec      a stored promotion rule, created and updated through        *)
(*             clean_promotion_rule;                                       *)
(*   SpecPred  clean_predicate applied to a predicate tree and again to    *)
(*             its own output;                                             *)
(*   SpecTax   update_taxes_for_order_lines and _calculate_order_total     *)
(*             applied to an order;                                        *)
(*   SpecMut   two PromotionRuleUpdate.perform_mutation calls on the same  *)
(*             rule, interleaved statement by statement.                   *)
(***************************************************************************)
EXTENDS Integers, Sequences, FiniteSets, TLC

VARIABLES
    rule,       \* Spec: the stored PromotionRule, or NoRule
    last,       \* Spec: the last clean_promotion_rule call and what it returned
    pred,       \* SpecPred: the predicate tree and the results of cleaning it
    order,      \* SpecTax: the order, its lines and the calculator's position
    mut         \* SpecMut: the PromotionRuleUpdate requests in flight

vars == <<rule, last, pred, order, mut>>

Idle == [pc |-> "idle"]

----------------------------------------------------------------------------
(* Python values.  A JSON value is a node: None, a scalar, a dict (items   *)
(* are key/value pairs in insertion order) or a list (items are pairs with *)
(* an empty key).  A str is a sequence of one-character strings.           *)

PyNone == [t |-> "none", v |-> 0, items |-> <<>>]
Leaf(n) == [t |-> "leaf", v |-> n, items |-> <<>>]
Pair(k, val) == [key |-> k, val |-> val]
Dict(kvs) == [t |-> "dict", v |-> 0, items |-> kvs]
List(nodes) == [t |-> "list", v |-> 0, items |-> [i \in 1..Len(nodes) |-> Pair(<<>>, nodes[i])]]
EmptyDict == Dict(<<>>)

IsContainer(n) == n.t \in {"dict", "list"}

\* bool(x): None, 0, {} and [] are falsy
Truthy(n) ==
    CASE n.t = "none" -> FALSE
      [] n.t = "leaf" -> n.v # 0
      [] OTHER -> Len(n.items) > 0

\* x or y
PyOr(x, y) == IF Truthy(x) THEN x ELSE y

Keys(d) == {d.items[i].key : i \in 1..Len(d.items)}

RECURSIVE Concat(_)
Concat(ss) == IF ss = <<>> THEN <<>> ELSE Head(ss) \o Concat(Tail(ss))

\* needle in haystack, for str
Contains(hay, needle) ==
    \E i \in 1..(Len(hay) - Len(needle) + 1) :
        SubSeq(hay, i, i + Len(needle) - 1) = needle

Lowers == <<"a","b","c","d","e","f","g","h","i","j","k","l","m",
            "n","o","p","q","r","s","t","u","v","w","x","y","z">>
Uppers == <<"A","B","C","D","E","F","G","H","I","J","K","L","M",
            "N","O","P","Q","R","S","T","U","V","W","X","Y","Z">>

Upper(c) == IF \E i \in 1..Len(Lowers) : Lowers[i] = c
            THEN Uppers[CHOOSE i \in 1..Len(Lowers) : Lowers[i] = c] ELSE c
Lower(c) == IF \E i \in 1..Len(Uppers) : Uppers[i] = c
            THEN Lowers[CHOOSE i \in 1..Len(Uppers) : Uppers[i] = c] ELSE c

\* str.capitalize(): first character upper-cased, the rest lower-cased
Capitalize(s) == [i \in 1..Len(s) |-> IF i = 1 THEN Upper(s[i]) ELSE Lower(s[i])]

\* str.split("_")
RECURSIVE SplitUnderscore(_, _)
SplitUnderscore(s, cur) ==
    IF s = <<>> THEN <<cur>>
    ELSE IF Head(s) = "_" THEN <<cur>> \o SplitUnderscore(Tail(s), <<>>)
    ELSE SplitUnderscore(Tail(s), Append(cur, Head(s)))

\* graphene.utils.str_converters.to_camel_case:
\*   components = snake_str.split("_")
\*   return components[0] + "".join(x.capitalize() if x else "_" for x in components[1:])
to_camel_case(s) ==
    LET components == SplitUnderscore(s, <<>>)
        rest == Tail(components)
    IN  Head(components) \o
        Concat([i \in 1..Len(rest) |->
                   IF rest[i] # <<>> THEN Capitalize(rest[i]) ELSE <<"_">>])

OpAND == <<"A", "N", "D">>
OpOR == <<"O", "R">>

_contains_operator(input) == \E op \in {OpAND, OpOR} : op \in Keys(input)

\* d[k] = val on a dict under construction: an existing key keeps its place
DictSet(kvs, k, val) ==
    IF \E i \in 1..Len(kvs) : kvs[i].key = k
    THEN [i \in 1..Len(kvs) |-> IF kvs[i].key = k THEN Pair(k, val) ELSE kvs[i]]
    ELSE Append(kvs, Pair(k, val))

\* whether clean_predicate returns (TRUE) or raises ValidationError (FALSE)
RECURSIVE CleanOk(_)
CleanOk(predicate) ==
    IF predicate.t = "list"
    THEN \A i \in 1..Len(predicate.items) :
            IsContainer(predicate.items[i].val) => CleanOk(predicate.items[i].val)
    ELSE /\ ~(_contains_operator(predicate) /\ Cardinality(Keys(predicate)) > 1)
         /\ \A i \in 1..Len(predicate.items) :
               IsContainer(predicate.items[i].val) => CleanOk(predicate.items[i].val)

RECURSIVE clean_predicate(_)
RECURSIVE CleanItems(_, _)
CleanItems(kvs, acc) ==
    IF kvs = <<>> THEN acc
    ELSE LET kv == Head(kvs)
             val == IF IsContainer(kv.val) THEN clean_predicate(kv.val) ELSE kv.val
         IN  CleanItems(Tail(kvs), DictSet(acc, to_camel_case(kv.key), val))

\* the value clean_predicate returns when it does not raise
clean_predicate(predicate) ==
    IF predicate.t = "list"
    THEN [predicate EXCEPT !.items =
            [i \in 1..Len(predicate.items) |->
                IF IsContainer(predicate.items[i].val)
                THEN Pair(<<>>, clean_predicate(predicate.items[i].val))
                ELSE predicate.items[i]]]
    ELSE Dict(CleanItems(predicate.items, <<>>))

\* == on two JSON values: dicts compare as mappings, whatever the key order
RECURSIVE PyEq(_, _)
PyEq(a, b) ==
    /\ a.t = b.t
    /\ a.v = b.v
    /\ Len(a.items) = Len(b.items)
    /\ IF a.t = "dict"
       THEN /\ Keys(a) = Keys(b)
            /\ \A i \in 1..Len(a.items) : \A j \in 1..Len(b.items) :
                  a.items[i].key = b.items[j].key => PyEq(a.items[i].val, b.items[j].val)
       ELSE \A i \in 1..Len(a.items) : PyEq(a.items[i].val, b.items[i].val)

----------------------------------------------------------------------------
(* The promotion rule validator.  cleaned_input is a record: keys is the   *)
(* set of keys the dict holds, the other fields are the values (None for   *)
(* a key the dict does not hold).  errors maps a field to the list of the  *)
(* error codes appended to it; a field with an empty list is not a key.    *)

Fields == {"catalogue_predicate", "checkout_and_order_predicate", "reward_type",
           "reward_value", "reward_value_type", "channels", "add_channels",
           "remove_channels", "promotion"}

NoErrors == [f \in Fields |-> <<>>]
AddError(errors, field, code) == [errors EXCEPT ![field] = Append(@, code)]
RECURSIVE AddErrors(_, _, _)
AddErrors(errors, fields, code) ==
    IF fields = {} THEN errors
    ELSE LET f == CHOOSE x \in fields : TRUE
         IN  AddErrors(AddError(errors, f, code), fields \ {f}, code)
\* "field in errors" / bool(errors) on the defaultdict
InErrors(errors, field) == errors[field] # <<>>
HasErrors(errors) == \E f \in Fields : errors[f] # <<>>

NoRule == [exists |-> FALSE]
HasInstance(instance) == instance.exists

\* the channel directory: channel id -> currency code
Channels == {"c1", "c2", "c3"}
currency_code(channel) == IF channel = "c3" THEN "EUR" ELSE "USD"

\* the fields the MIXED_PREDICATES error is attached to
MixedErrorFields_Both(cleaned_input, instance) ==
    {"catalogue_predicate", "checkout_and_order_predicate"}
MixedErrorFields(cleaned_input, instance) ==
    LET error_fields == {"catalogue_predicate", "checkout_and_order_predicate"}
    IN  IF HasInstance(instance)
        THEN {field \in error_fields : field \in cleaned_input.keys}
        ELSE error_fields

_clean_predicates(cleaned_input, catalogue_predicate, checkout_and_order_predicate, errors, predicate_type, instance) ==
    IF catalogue_predicate.t = "none" /\ checkout_and_order_predicate.t = "none"
    THEN [invalid |-> TRUE,
          errors |-> AddErrors(errors, {"catalogue_predicate",
                                        "checkout_and_order_predicate"}, "REQUIRED")]
    ELSE IF Truthy(catalogue_predicate) /\ Truthy(checkout_and_order_predicate)
    THEN [invalid |-> TRUE,
          errors |-> AddErrors(errors, MixedErrorFields(cleaned_input, instance),
                               "MIXED_PREDICATES")]
    ELSE IF /\ Truthy(catalogue_predicate)
            /\ predicate_type # "None"
            /\ predicate_type = "CHECKOUT_AND_ORDER"
    THEN [invalid |-> TRUE,
          errors |-> AddError(errors, "catalogue_predicate",
                              "MIXED_PROMOTION_PREDICATES")]
    ELSE IF /\ Truthy(checkout_and_order_predicate)
            /\ predicate_type # "None"
            /\ predicate_type = "CATALOGUE"
    THEN [invalid |-> TRUE,
          errors |-> AddError(errors, "checkout_and_order_predicate",
                              "MIXED_PROMOTION_PREDICATES")]
    ELSE [invalid |-> FALSE, errors |-> errors]

\* reward_type as both predicate cleaners resolve it
EffectiveRewardType(cleaned_input, instance) ==
    IF HasInstance(instance) /\ "reward_type" \notin cleaned_input.keys
    THEN (IF cleaned_input.reward_type # "None" THEN cleaned_input.reward_type
          ELSE instance.reward_type)
    ELSE cleaned_input.reward_type

_clean_catalogue_predicate(cleaned_input, catalogue_predicate, errors, instance) ==
    IF ~Truthy(catalogue_predicate)
    THEN [cleaned_input |-> cleaned_input, errors |-> errors]
    ELSE IF EffectiveRewardType(cleaned_input, instance) # "None"
    THEN [cleaned_input |-> cleaned_input,
          errors |-> AddError(errors, "reward_type", "INVALID")]
    ELSE IF "catalogue_predicate" \notin cleaned_input.keys
    THEN [cleaned_input |-> cleaned_input, errors |-> errors]
    ELSE IF CleanOk(catalogue_predicate)
    THEN [cleaned_input |->
              [cleaned_input EXCEPT !.catalogue_predicate =
                                        clean_predicate(catalogue_predicate)],
          errors |-> errors]
    ELSE [cleaned_input |-> cleaned_input,
          errors |-> AddError(errors, "catalogue_predicate", "INVALID")]

\* str(n) for an int n >= 0
Digits == <<"0", "1", "2", "3", "4", "5", "6", "7", "8", "9">>
RECURSIVE StrInt(_)
StrInt(n) == IF n < 10 THEN <<Digits[n + 1]>>
             ELSE StrInt(n \div 10) \o <<Digits[(n % 10) + 1]>>

\* str(predicate)
RECURSIVE StrOf(_)
RECURSIVE StrItems(_, _)
StrItems(kvs, isDict) ==
    IF kvs = <<>> THEN <<>>
    ELSE (IF isDict THEN <<"'">> \o Head(kvs).key \o <<"'", ":", " ">> ELSE <<>>)
         \o StrOf(Head(kvs).val)
         \o (IF Len(kvs) > 1 THEN <<",", " ">> ELSE <<>>)
         \o StrItems(Tail(kvs), isDict)
StrOf(n) ==
    CASE n.t = "none" -> <<"N", "o", "n", "e">>
      [] n.t = "leaf" -> StrInt(n.v)
      [] n.t = "dict" -> <<"{">> \o StrItems(n.items, TRUE) \o <<"}">>
      [] OTHER -> <<"[">> \o StrItems(n.items, FALSE) \o <<"]">>

S_subtotal_price == <<"s","u","b","t","o","t","a","l","_","p","r","i","c","e">>
S_subtotalPrice == <<"s","u","b","t","o","t","a","l","P","r","i","c","e">>
S_total_price == <<"t","o","t","a","l","_","p","r","i","c","e">>
S_totalPrice == <<"t","o","t","a","l","P","r","i","c","e">>

price_based_predicate(checkout_and_order_predicate) ==
    \E field \in {S_subtotal_price, S_subtotalPrice, S_total_price, S_totalPrice} :
        Contains(StrOf(checkout_and_order_predicate), field)

_clean_checkout_and_order_predicate(cleaned_input, checkout_and_order_predicate, channel_currencies, errors, instance) ==
    IF ~Truthy(checkout_and_order_predicate)
    THEN [cleaned_input |-> cleaned_input, errors |-> errors]
    ELSE IF EffectiveRewardType(cleaned_input, instance) = "None"
    THEN [cleaned_input |-> cleaned_input,
          errors |-> AddError(errors, "reward_type", "REQUIRED")]
    ELSE IF /\ Cardinality(channel_currencies) > 1
            /\ price_based_predicate(checkout_and_order_predicate)
    THEN LET error_field ==
                 IF HasInstance(instance)
                 THEN (IF "add_channels" \in cleaned_input.keys THEN "add_channels"
                       ELSE "checkout_and_order_predicate")
                 ELSE "channels"
         IN  [cleaned_input |-> cleaned_input,
              errors |-> AddError(errors, error_field,
                                  "MULTIPLE_CURRENCIES_NOT_ALLOWED")]
    ELSE IF "checkout_and_order_predicate" \notin cleaned_input.keys
    THEN [cleaned_input |-> cleaned_input, errors |-> errors]
    ELSE IF ~CleanOk(checkout_and_order_predicate)
    THEN [cleaned_input |-> cleaned_input,
          errors |-> AddError(errors, "checkout_and_order_predicate", "INVALID")]
    ELSE LET cleaned == [cleaned_input EXCEPT !.checkout_and_order_predicate =
                             clean_predicate(checkout_and_order_predicate)]
         IN  [cleaned_input |-> cleaned,
              errors |->
                  \* promotion.rules.count() >= CHECKOUT_AND_ORDER_RULES_LIMIT
                  IF cleaned_input.promotion = "full"
                  THEN AddError(errors, "checkout_and_order_predicate",
                                "RULES_NUMBER_LIMIT")
                  ELSE errors]

_get_channel_currencies(cleaned_input, instance) ==
    IF ~HasInstance(instance)
    THEN {currency_code(channel) : channel \in cleaned_input.channels}
    ELSE LET existing == {currency_code(channel) : channel \in instance.channels}
             removed == IF cleaned_input.remove_channels # {}
                        THEN existing \ {currency_code(channel) :
                                            channel \in cleaned_input.remove_channels}
                        ELSE existing
         IN  IF cleaned_input.add_channels # {}
             THEN removed \cup {currency_code(channel) :
                                   channel \in cleaned_input.add_channels}
             ELSE removed

\* validate_price_precision(value, currency): the value, in thousandths, has
\* no more decimal places than the currency (two for USD and EUR)
PrecisionOk(reward_value, currency) == reward_value.v % 10 = 0

_clean_reward_value(cleaned_input, reward_value, reward_value_type, channel_currencies, errors, instance) ==
    IF reward_value_type = "FIXED"
    THEN IF InErrors(errors, "channels") THEN errors
         ELSE IF channel_currencies = {}
         THEN LET error_field ==
                      IF HasInstance(instance)
                      THEN (IF "reward_value_type" \in cleaned_input.keys
                            THEN "reward_value_type" ELSE "remove_channels")
                      ELSE "channels"
              IN  AddError(errors, error_field, "MISSING_CHANNELS")
         ELSE IF Cardinality(channel_currencies) > 1
         THEN LET error_field ==
                      IF HasInstance(instance)
                      THEN (IF "reward_value_type" \in cleaned_input.keys
                            THEN "reward_value_type" ELSE "add_channels")
                      ELSE "reward_value_type"
              IN  AddError(errors, error_field, "MULTIPLE_CURRENCIES_NOT_ALLOWED")
         ELSE LET currency == CHOOSE c \in channel_currencies : TRUE
              IN  IF PrecisionOk(reward_value, currency) THEN errors
                  ELSE AddError(errors, "reward_value", "INVALID_PRECISION")
    ELSE IF reward_value_type = "PERCENTAGE"
    THEN IF reward_value.v > 100000
         THEN AddError(errors, "reward_value", "INVALID")
         ELSE errors
    ELSE errors

_clean_reward(cleaned_input, catalogue_predicate, checkout_and_order_predicate, currencies, errors, instance) ==
    IF /\ HasInstance(instance)
       /\ "reward_value" \notin cleaned_input.keys
       /\ "reward_value_type" \notin cleaned_input.keys
    THEN errors
    ELSE LET reward_value ==
                 IF HasInstance(instance) /\ "reward_value" \notin cleaned_input.keys
                 THEN instance.reward_value ELSE cleaned_input.reward_value
             reward_value_type ==
                 IF HasInstance(instance) /\ "reward_value_type" \notin cleaned_input.keys
                 THEN instance.reward_value_type ELSE cleaned_input.reward_value_type
             predicate == Truthy(catalogue_predicate) \/ Truthy(checkout_and_order_predicate)
             e1 == IF reward_value_type = "None" /\ predicate
                   THEN AddError(errors, "reward_value_type", "REQUIRED") ELSE errors
             e2 == IF reward_value.t = "none" /\ predicate
                   THEN AddError(e1, "reward_value", "REQUIRED") ELSE e1
         IN  IF Truthy(reward_value) /\ reward_value_type # "None"
             THEN _clean_reward_value(cleaned_input, reward_value, reward_value_type,
                                      currencies, e2, instance)
             ELSE e2

\* the stages after the predicate presence/exclusivity stage
CleanStages(cleaned_input, catalogue_predicate, checkout_and_order_predicate, errors, instance) ==
    LET channel_currencies == _get_channel_currencies(cleaned_input, instance)
        s2 == _clean_catalogue_predicate(cleaned_input, catalogue_predicate,
                                         errors, instance)
        s3 == _clean_checkout_and_order_predicate(
                  s2.cleaned_input, checkout_and_order_predicate,
                  channel_currencies, s2.errors, instance)
        e4 == _clean_reward(s3.cleaned_input, catalogue_predicate,
                            checkout_and_order_predicate, channel_currencies,
                            s3.errors, instance)
    IN  [cleaned_input |-> s3.cleaned_input, errors |-> e4,
         channel_currencies |-> channel_currencies]

\* "if not invalid_predicates:" the later stages run only when stage 1 passed
RunLaterStages_Always(invalid_predicates) == TRUE
RunLaterStages(invalid_predicates) == ~invalid_predicates

\* clean_promotion_rule: what it returns and records, with the values it
\* resolved on the way
clean_promotion_rule(cleaned_input, errors, predicate_type, instance) ==
    LET catalogue_predicate ==
            IF HasInstance(instance)
            THEN PyOr(cleaned_input.catalogue_predicate, instance.catalogue_predicate)
            ELSE cleaned_input.catalogue_predicate
        checkout_and_order_predicate ==
            IF HasInstance(instance)
            THEN PyOr(cleaned_input.checkout_and_order_predicate,
                      instance.checkout_and_order_predicate)
            ELSE cleaned_input.checkout_and_order_predicate
        s1 == _clean_predicates(cleaned_input, catalogue_predicate,
                                checkout_and_order_predicate, errors,
                                predicate_type, instance)
        rest == CleanStages(cleaned_input, catalogue_predicate,
                            checkout_and_order_predicate, s1.errors, instance)
    IN  [catalogue_predicate |-> catalogue_predicate,
         checkout_and_order_predicate |-> checkout_and_order_predicate,
         invalid_predicates |-> s1.invalid,
         stage1_errors |-> s1.errors,
         cleaned_input |-> IF RunLaterStages(s1.invalid) THEN rest.cleaned_input
                           ELSE cleaned_input,
         errors |-> IF RunLaterStages(s1.invalid) THEN rest.errors ELSE s1.errors,
         channel_currencies |-> IF RunLaterStages(s1.invalid) THEN rest.channel_currencies
                                ELSE {}]

----------------------------------------------------------------------------
(* Spec: one promotion rule, created and then updated.                     *)

S_product_predicate == <<"p","r","o","d","u","c","t","_","p","r","e","d","i","c","a","t","e">>
S_ids == <<"i","d","s">>
S_gte == <<"g","t","e">>

\* {"product_predicate": {"ids": [1]}}
CataloguePred == Dict(<<Pair(S_product_predicate, Dict(<<Pair(S_ids, List(<<Leaf(1)>>))>>))>>)
\* {"total_price": {"gte": 100}}
CheckoutPred == Dict(<<Pair(S_total_price, Dict(<<Pair(S_gte, Leaf(100))>>))>>)

\* <<the key is in the input, its value>>
Absent(none) == <<FALSE, none>>
Given(val) == <<TRUE, val>>

CataloguePredicateInputs == {Absent(PyNone), Given(PyNone), Given(EmptyDict), Given(CataloguePred)}
CheckoutPredicateInputs == {Absent(PyNone), Given(PyNone), Given(EmptyDict), Given(CheckoutPred)}
RewardTypeInputs == {Absent("None"), Given("SUBTOTAL_DISCOUNT")}
\* reward_value is a Decimal, held in thousandths
RewardValueInputs == {Absent(PyNone), Given(Leaf(0)), Given(Leaf(10000))}
RewardValueTypeInputs == {Absent("None"), Given("FIXED"), Given("PERCENTAGE")}
ChannelListInputs == {Absent({})} \cup {Given(cs) : cs \in SUBSET Channels}
\* add_channels / remove_channels of one update: absent, empty or one channel
DeltaInputs == {Absent({}), Given({})} \cup {Given({c}) : c \in Channels}
\* at most MaxUpdateKeys keys in the input of one update
MaxUpdateKeys == 2
\* a create's <<promotion, predicate_type>>: no promotion; a promotion below
\* the rules limit holding catalogue rules or checkout-and-order rules; one at
\* the limit
PromotionInputs == {<<"None", "None">>, <<"open", "CATALOGUE">>,
                    <<"open", "CHECKOUT_AND_ORDER">>, <<"full", "CHECKOUT_AND_ORDER">>}

MakeInput(cat, chk, rt, rv, rvt, ch, add, rem, promotion) ==
    [keys |-> {f \in Fields :
                 \/ f = "catalogue_predicate" /\ cat[1]
                 \/ f = "checkout_and_order_predicate" /\ chk[1]
                 \/ f = "reward_type" /\ rt[1]
                 \/ f = "reward_value" /\ rv[1]
                 \/ f = "reward_value_type" /\ rvt[1]
                 \/ f = "channels" /\ ch[1]
                 \/ f = "add_channels" /\ add[1]
                 \/ f = "remove_channels" /\ rem[1]
                 \/ f = "promotion" /\ promotion # "None"},
     catalogue_predicate |-> cat[2],
     checkout_and_order_predicate |-> chk[2],
     reward_type |-> rt[2],
     reward_value |-> rv[2],
     reward_value_type |-> rvt[2],
     channels |-> ch[2],
     add_channels |-> add[2],
     remove_channels |-> rem[2],
     promotion |-> promotion]

\* ModelMutation.construct_instance on one field: a key of cleaned_input
\* replaces the stored value; None on a field that is not nullable (the two
\* predicates) stores the field's default, {}
ConstructPredicate(cleaned_input, field, old) ==
    IF field \notin cleaned_input.keys THEN old
    ELSE IF cleaned_input[field].t = "none" THEN EmptyDict
    ELSE cleaned_input[field]
ConstructField(cleaned_input, field, old) ==
    IF field \notin cleaned_input.keys THEN old ELSE cleaned_input[field]

construct_instance(instance, cleaned_input) ==
    [exists |-> TRUE,
     catalogue_predicate |->
         ConstructPredicate(cleaned_input, "catalogue_predicate", instance.catalogue_predicate),
     checkout_and_order_predicate |->
         ConstructPredicate(cleaned_input, "checkout_and_order_predicate",
                            instance.checkout_and_order_predicate),
     reward_type |-> ConstructField(cleaned_input, "reward_type", instance.reward_type),
     reward_value |-> ConstructField(cleaned_input, "reward_value", instance.reward_value),
     reward_value_type |->
         ConstructField(cleaned_input, "reward_value_type", instance.reward_value_type),
     channels |-> instance.channels]

\* a PromotionRule() not yet saved: the model's field defaults
NewRule ==
    [exists |-> TRUE, catalogue_predicate |-> EmptyDict,
     checkout_and_order_predicate |-> EmptyDict, reward_type |-> "None",
     reward_value |-> PyNone, reward_value_type |-> "None", channels |-> {}]

\* PromotionRuleUpdate._save_m2m: remove_channels, then add_channels
_save_m2m(instance, cleaned_data) ==
    LET removed == IF cleaned_data.remove_channels # {}
                   THEN instance.channels \ cleaned_data.remove_channels
                   ELSE instance.channels
    IN  [instance EXCEPT !.channels =
            IF cleaned_data.add_channels # {}
            THEN removed \cup cleaned_data.add_channels ELSE removed]

\* check_for_duplicates(data, "add_channels", "remove_channels", ...)
check_for_duplicates(data) == data.add_channels \cap data.remove_channels # {}

\* PromotionRuleUpdate.clean_input's predicate_type: PredicateType.CATALOGUE
\* if instance.catalogue_predicate else PredicateType.order.  The enum is not
\* part of the sources: PredicateType.order is either the member the
\* validator calls CHECKOUT_AND_ORDER or a member of its own.
UpdatePredicateTypes(instance) ==
    IF Truthy(instance.catalogue_predicate) THEN {"CATALOGUE"}
    ELSE {"CHECKOUT_AND_ORDER", "order"}

Validated(op, input, before, res) ==
    [pc |-> "validated", op |-> op, input |-> input, before |-> before,
     duplicates |-> FALSE,
     catalogue_predicate |-> res.catalogue_predicate,
     checkout_and_order_predicate |-> res.checkout_and_order_predicate,
     invalid_predicates |-> res.invalid_predicates,
     channel_currencies |-> res.channel_currencies,
     cleaned_input |-> res.cleaned_input,
     errors |-> res.errors,
     saved |-> ~HasErrors(res.errors)]

\* PromotionRuleCreate: clean_promotion_rule with no instance; the rule is
\* stored when no error was recorded
Create ==
    /\ last.pc = "idle"
    /\ ~rule.exists
    /\ \E cat \in CataloguePredicateInputs, chk \in CheckoutPredicateInputs,
          rt \in RewardTypeInputs, rv \in RewardValueInputs,
          rvt \in RewardValueTypeInputs, ch \in ChannelListInputs,
          promotion \in PromotionInputs :
        LET input == MakeInput(cat, chk, rt, rv, rvt, ch, Absent({}), Absent({}), promotion[1])
            res == clean_promotion_rule(input, NoErrors, promotion[2], NoRule)
        IN  /\ last' = Validated("create", input, NoRule, res)
            /\ rule' = IF HasErrors(res.errors) THEN rule
                       ELSE [construct_instance(NewRule, res.cleaned_input)
                                EXCEPT !.channels = res.cleaned_input.channels]
    /\ UNCHANGED <<pred, order, mut>>

\* PromotionRuleUpdate.perform_mutation on the stored rule
Update ==
    /\ last.pc = "idle"
    /\ rule.exists
    /\ \E cat \in CataloguePredicateInputs, chk \in CheckoutPredicateInputs,
          rt \in RewardTypeInputs, rv \in RewardValueInputs,
          rvt \in RewardValueTypeInputs, add \in DeltaInputs, rem \in DeltaInputs,
          predicate_type \in UpdatePredicateTypes(rule) :
        LET input == MakeInput(cat, chk, rt, rv, rvt, Absent({}), add, rem, "None")
            res == clean_promotion_rule(input, NoErrors, predicate_type, rule)
        IN  /\ Cardinality(input.keys) <= MaxUpdateKeys
            /\ IF check_for_duplicates(input)
               THEN /\ last' = [pc |-> "raised", op |-> "update", input |-> input,
                                before |-> rule, duplicates |-> TRUE, saved |-> FALSE]
                    /\ rule' = rule
               ELSE /\ last' = Validated("update", input, rule, res)
                    /\ rule' = IF HasErrors(res.errors) THEN rule
                               ELSE _save_m2m(construct_instance(rule, res.cleaned_input),
                                              res.cleaned_input)
    /\ UNCHANGED <<pred, order, mut>>

\* the mutation's response is returned; the next request can start
Respond ==
    /\ last.pc # "idle"
    /\ last' = Idle
    /\ UNCHANGED <<rule, pred, order, mut>>

Init == rule = NoRule /\ last = Idle /\ pred = Idle /\ order = Idle /\ mut = Idle

Next == Create \/ Update \/ Respond

Spec == Init /\ [][Next]_vars

----------------------------------------------------------------------------
(* Claims about clean_promotion_rule, checked under Spec.                  *)

PredicateFields == {"catalogue_predicate", "checkout_and_order_predicate"}
Recorded(code, field) == \E i \in 1..Len(last.errors[field]) : last.errors[field][i] = code
RecordedAnywhere(code) == \E f \in Fields : Recorded(code, f)
ExactlyOne(p, q) == (p \/ q) /\ ~(p /\ q)

\* the channels the rule has if the last input is applied
EffectiveChannels ==
    IF last.op = "create" THEN last.input.channels
    ELSE (last.before.channels \ last.input.remove_channels) \cup last.input.add_channels
\* the reward_value_type the rule has if the last input is applied
EffectiveRewardValueType ==
    IF last.op = "update" /\ "reward_value_type" \notin last.input.keys
    THEN last.before.reward_value_type ELSE last.input.reward_value_type

\* the reward_value the rule has if the last input is applied
EffectiveRewardValue ==
    IF last.op = "update" /\ "reward_value" \notin last.input.keys
    THEN last.before.reward_value ELSE last.input.reward_value

\* C1: every rule clean_promotion_rule accepts has exactly one non-empty
\* predicate kind, on create and on update after the merge with the instance,
\* and so has the stored rule after any accepted create and updates.
C1_ExactlyOnePredicate ==
    /\ (last.pc = "validated" /\ ~HasErrors(last.errors)) =>
           ExactlyOne(Truthy(last.catalogue_predicate),
                      Truthy(last.checkout_and_order_predicate))
    /\ rule.exists => ExactlyOne(Truthy(rule.catalogue_predicate),
                                 Truthy(rule.checkout_and_order_predicate))

\* C2 as stated: when neither effective predicate is given (both None) the
\* REQUIRED code, and when both are non-empty the MIXED_PREDICATES code, is
\* recorded on both predicate fields, on create and on update.
C2_ErrorsOnBothFields ==
    last.pc = "validated" =>
        /\ (last.catalogue_predicate.t = "none"
            /\ last.checkout_and_order_predicate.t = "none")
           => \A f \in PredicateFields : Recorded("REQUIRED", f)
        /\ (Truthy(last.catalogue_predicate)
            /\ Truthy(last.checkout_and_order_predicate))
           => \A f \in PredicateFields : Recorded("MIXED_PREDICATES", f)

\* C2 amended: both effective predicates None records REQUIRED on both
\* predicate fields; both non-empty records MIXED_PREDICATES on both fields on
\* create and, on update, on exactly those of the two fields that are keys of
\* the input.
C2_ErrorsOnInputFields ==
    last.pc = "validated" =>
        /\ (last.catalogue_predicate.t = "none"
            /\ last.checkout_and_order_predicate.t = "none")
           => \A f \in PredicateFields : Recorded("REQUIRED", f)
        /\ (Truthy(last.catalogue_predicate)
            /\ Truthy(last.checkout_and_order_predicate))
           => \A f \in PredicateFields :
                 Recorded("MIXED_PREDICATES", f)
                     <=> (last.op = "create" \/ f \in last.input.keys)

\* an update that sets the other predicate kind on a stored rule: the
\* MIXED_PREDICATES code is on the one field the input holds
C2_Witness ==
    /\ last.pc = "validated" /\ last.op = "update"
    /\ Truthy(last.catalogue_predicate) /\ Truthy(last.checkout_and_order_predicate)
    /\ "checkout_and_order_predicate" \in last.input.keys
    /\ "catalogue_predicate" \notin last.input.keys
    /\ Recorded("MIXED_PREDICATES", "checkout_and_order_predicate")
    /\ ~Recorded("MIXED_PREDICATES", "catalogue_predicate")

\* C3: an input that passes the predicate stage with one non-empty predicate
\* and a reward_value (0 included), whose effective reward_value_type is FIXED
\* and whose effective channels span more than one currency, gets a
\* MULTIPLE_CURRENCIES_NOT_ALLOWED error.
C3_FixedMultiCurrencyRejected ==
    (/\ last.pc = "validated"
     /\ ~last.invalid_predicates
     /\ ExactlyOne(Truthy(last.catalogue_predicate),
                   Truthy(last.checkout_and_order_predicate))
     /\ EffectiveRewardValue.t # "none"
     /\ EffectiveRewardValueType = "FIXED"
     /\ Cardinality({currency_code(c) : c \in EffectiveChannels}) > 1)
    => RecordedAnywhere("MULTIPLE_CURRENCIES_NOT_ALLOWED")

\* C4: on update (removing channels the rule has) the currency set handed to
\* validation is the set of the currency codes of (existing channels minus
\* remove_channels) union add_channels.
C4_CurrenciesOfEffectiveChannels ==
    (/\ last.pc = "validated" /\ last.op = "update" /\ ~last.invalid_predicates
     /\ last.input.remove_channels \subseteq last.before.channels)
    => last.channel_currencies = {currency_code(c) : c \in EffectiveChannels}

\* C10: when the predicate presence/exclusivity stage fails, only stage-1
\* codes are recorded, only on the predicate fields, and cleaned_input is
\* returned as it was given.
C10_StageOneShortCircuits ==
    (last.pc = "validated" /\ last.invalid_predicates) =>
        /\ last.cleaned_input = last.input
        /\ \A f \in Fields : \A i \in 1..Len(last.errors[f]) :
              /\ f \in PredicateFields
              /\ last.errors[f][i] \in {"REQUIRED", "MIXED_PREDICATES",
                                        "MIXED_PROMOTION_PREDICATES"}

\* stage 1 fails on an input whose FIXED reward has no channel, and whose
\* catalogue predicate the later stages would rewrite
C10_Witness ==
    /\ last.pc = "validated" /\ last.invalid_predicates
    /\ HasErrors(last.errors)
    /\ last.input.reward_value_type = "FIXED"
    /\ Truthy(last.input.reward_value)
    /\ EffectiveChannels = {}
    /\ last.input.catalogue_predicate = CataloguePred

----------------------------------------------------------------------------
(* SpecPred: clean_predicate on bounded predicate trees.                   *)

MaxKeyLen == 3

KeyChars == {"a", "_"}
CamelKey == <<"a", "A">>
PredKeys ==
    UNION {[1..n -> KeyChars] : n \in 1..MaxKeyLen} \cup {CamelKey, OpAND, OpOR}

\* dicts of one key, and of one or two keys, with scalar values
OneKeyDicts == {Dict(<<Pair(k, Leaf(1))>>) : k \in PredKeys}
FlatDicts ==
    OneKeyDicts
    \cup {Dict(<<Pair(k1, Leaf(1)), Pair(k2, Leaf(2))>>) :
            <<k1, k2>> \in {kk \in PredKeys \X PredKeys : kk[1] # kk[2]}}

\* flat dicts, and a one-key dict nested under a key, bare or in a list
PredTrees ==
    {EmptyDict} \cup FlatDicts
    \cup {Dict(<<Pair(k, d)>>) : <<k, d>> \in PredKeys \X OneKeyDicts}
    \cup {Dict(<<Pair(k, List(<<d>>))>>) : <<k, d>> \in PredKeys \X OneKeyDicts}

InitPred ==
    /\ rule = Idle /\ last = Idle /\ order = Idle /\ mut = Idle
    /\ pred \in {[pc |-> "input", tree |-> t, once |-> PyNone, twice |-> PyNone,
                 raised |-> FALSE] : t \in PredTrees}

\* out = clean_predicate(tree)
CleanOnce ==
    /\ pred.pc = "input"
    /\ pred' = IF CleanOk(pred.tree)
               THEN [pred EXCEPT !.pc = "once", !.once = clean_predicate(pred.tree)]
               ELSE [pred EXCEPT !.pc = "rejected", !.raised = TRUE]
    /\ UNCHANGED <<rule, last, order, mut>>

\* out2 = clean_predicate(out)
CleanTwice ==
    /\ pred.pc = "once"
    /\ pred' = IF CleanOk(pred.once)
               THEN [pred EXCEPT !.pc = "twice", !.twice = clean_predicate(pred.once)]
               ELSE [pred EXCEPT !.pc = "twice", !.raised = TRUE]
    /\ UNCHANGED <<rule, last, order, mut>>

NextPred == CleanOnce \/ CleanTwice

SpecPred == InitPred /\ [][NextPred]_vars

\* C9: clean_predicate is idempotent on its own output: for every tree it
\* accepts, cleaning the result again succeeds and gives an equal tree.
C9_Idempotent ==
    pred.pc = "twice" => /\ ~pred.raised
                         /\ PyEq(pred.twice, pred.once)

----------------------------------------------------------------------------
(* SpecTax: the flat-rate order calculator.  Prices are whole minor units  *)
(* (cents); a discount amount may hold half a minor unit, so amounts that  *)
(* involve a discount are counted in half minor units ("halves").          *)

MaxLines == 2
MaxPrice == 1
MaxDiscount == 4

Quantities == {1, 2}
\* <<tax rate in percent, prices_entered_with_tax>>
TaxConfigs == {<<0, FALSE>>, <<25, FALSE>>, <<25, TRUE>>}
RoundingModes == {"ROUND_HALF_EVEN", "ROUND_HALF_UP"}
DiscountTypes == {"MANUAL", "VOUCHER"}

\* n / d (d > 0) rounded to an integer: Decimal.quantize under the rounding
\* mode of the decimal context
RoundDiv(n, d, mode) ==
    LET q == n \div d
        r == n - q * d
    IN  IF 2 * r < d THEN q
        ELSE IF 2 * r > d THEN q + 1
        ELSE IF mode = "ROUND_HALF_UP" THEN (IF n >= 0 THEN q + 1 ELSE q)
        ELSE (IF q % 2 = 0 THEN q ELSE q + 1)

\* quantize_price on an amount of num / den halves: the result in cents
quantize_price(num, den, mode) == RoundDiv(num, 2 * den, mode)

Money2(net, gross) == [net |-> net, gross |-> gross]

\* calculate_flat_rate_tax on num / den cents, quantized: <<net, gross>> in cents
calculate_flat_rate_tax(num, den, tax_rate, prices_entered_with_tax, mode) ==
    IF prices_entered_with_tax
    THEN Money2(RoundDiv(num * 100, den * (100 + tax_rate), mode), RoundDiv(num, den, mode))
    ELSE Money2(RoundDiv(num, den, mode), RoundDiv(num * (100 + tax_rate), den * 100, mode))

RECURSIVE SumSeq(_)
SumSeq(xs) == IF xs = <<>> THEN 0 ELSE Head(xs) + SumSeq(Tail(xs))

\* an order line before the calculation: the derived prices are those of an
\* earlier calculation without tax and discount
\* (undiscounted_base_unit_price = base_unit_price: no line-level discount)
NewLine(variant, base_unit_price, quantity) ==
    [variant |-> variant, base_unit_price |-> base_unit_price, quantity |-> quantity,
     processed |-> FALSE, discount_amount |-> 0,
     price_with_discounts |-> base_unit_price,
     unit_price |-> Money2(base_unit_price, base_unit_price),
     total_price |-> Money2(base_unit_price * quantity, base_unit_price * quantity),
     undiscounted_total_price |-> Money2(base_unit_price * quantity, base_unit_price * quantity)]

LineInputs == {NewLine(v, p, q) : v \in BOOLEAN, p \in 0..MaxPrice, q \in Quantities}
LineLists == UNION {[1..n -> LineInputs] : n \in 1..MaxLines}

\* sum([line.base_unit_price.amount * line.quantity for line in lines]), cents
order_total_price(lines) ==
    SumSeq([i \in 1..Len(lines) |-> lines[i].base_unit_price * lines[i].quantity])

\* "if line is lines[-1]"
IsLastLine(lines, i) == i = Len(lines)

\* the line's share of the discount, in halves; "raised" when the division by
\* an order total of zero raises
DiscountAmount(lines, i, total_discount_amount, total_line_discounts, mode) ==
    IF IsLastLine(lines, i)
    THEN [raised |-> FALSE, amount |-> total_discount_amount - total_line_discounts]
    ELSE IF order_total_price(lines) = 0
    THEN [raised |-> TRUE, amount |-> 0]
    ELSE [raised |-> FALSE,
          amount |-> 2 * quantize_price(
                         lines[i].base_unit_price * lines[i].quantity * total_discount_amount,
                         order_total_price(lines), mode)]

\* max(quantize_price((line_total_price - discount) / quantity), zero), cents
PriceWithDiscounts_NoClamp(line, discount_amount, mode) ==
    quantize_price(2 * line.base_unit_price * line.quantity - discount_amount,
                   line.quantity, mode)
PriceWithDiscounts(line, discount_amount, mode) ==
    LET price == quantize_price(2 * line.base_unit_price * line.quantity - discount_amount,
                                line.quantity, mode)
    IN  IF price > 0 THEN price ELSE 0

\* one pass of the loop body on line i
UpdateLine(o, lines, i, total_line_discounts) ==
    LET line == lines[i]
        share == DiscountAmount(lines, i, o.total_discount_amount, total_line_discounts,
                                o.rounding)
        discounted == o.total_discount_amount # 0
        price_with_discounts ==
            IF discounted THEN PriceWithDiscounts(line, share.amount, o.rounding)
            ELSE line.base_unit_price
        unit == calculate_flat_rate_tax(price_with_discounts, 1, o.tax_rate,
                                        o.prices_entered_with_tax, o.rounding)
        total == calculate_flat_rate_tax(price_with_discounts * line.quantity, 1,
                                         o.tax_rate, o.prices_entered_with_tax, o.rounding)
        undiscounted == calculate_flat_rate_tax(line.base_unit_price * line.quantity, 1,
                                                o.tax_rate, o.prices_entered_with_tax,
                                                o.rounding)
    IN  [raised |-> discounted /\ share.raised,
         line |-> [line EXCEPT !.processed = TRUE,
                               !.discount_amount = IF discounted THEN share.amount ELSE 0,
                               !.price_with_discounts = price_with_discounts,
                               !.unit_price = unit,
                               !.total_price = total,
                               !.undiscounted_total_price = undiscounted]]

\* the loop of update_taxes_for_order_lines from line i on
RECURSIVE UpdateLines(_, _, _, _)
UpdateLines(o, lines, i, total_line_discounts) ==
    IF i > Len(lines) THEN [raised |-> FALSE, lines |-> lines]
    ELSE IF ~lines[i].variant THEN UpdateLines(o, lines, i + 1, total_line_discounts)
    ELSE LET u == UpdateLine(o, lines, i, total_line_discounts)
         IN  IF u.raised THEN [raised |-> TRUE, lines |-> lines]
             ELSE UpdateLines(o, [lines EXCEPT ![i] = u.line], i + 1,
                              total_line_discounts + u.line.discount_amount)

\* get_total_order_discount_excluding_shipping(order).amount, in halves: the
\* amount of the order's one discount
get_total_order_discount_excluding_shipping(o) == o.discount_amount

\* base_calculations.base_order_total: lines plus shipping, no tax, in cents
base_order_total(o) == order_total_price(o.lines) + o.base_shipping_price

InitTax ==
    /\ rule = Idle /\ last = Idle /\ pred = Idle /\ mut = Idle
    /\ order \in
         {[pc |-> "start", lines |-> ls, rounding |-> mode, tax_rate |-> tax[1],
           prices_entered_with_tax |-> tax[2], base_shipping_price |-> ship,
           discount_type |-> dt, discount_amount |-> d,
           total_discount_amount |-> 0, raised |-> FALSE,
           shipping_price |-> Money2(0, 0), total |-> Money2(0, 0),
           summed |-> FALSE, compensated |-> FALSE] :
          ls \in LineLists, mode \in RoundingModes, tax \in TaxConfigs,
          ship \in 0..1, dt \in DiscountTypes, d \in 0..MaxDiscount}

update_taxes_for_order_lines ==
    /\ order.pc = "start"
    /\ LET o == [order EXCEPT !.total_discount_amount =
                                  get_total_order_discount_excluding_shipping(order)]
           res == UpdateLines(o, o.lines, 1, 0)
       IN  order' = IF res.raised
                    THEN [o EXCEPT !.pc = "raised", !.raised = TRUE, !.lines = res.lines]
                    ELSE [o EXCEPT !.pc = "lines", !.lines = res.lines]
    /\ UNCHANGED <<rule, last, pred, mut>>

_calculate_order_shipping ==
    /\ order.pc = "lines"
    /\ order' = [order EXCEPT !.pc = "shipping",
                              !.shipping_price =
                                  calculate_flat_rate_tax(order.base_shipping_price, 1,
                                      order.tax_rate, order.prices_entered_with_tax,
                                      order.rounding)]
    /\ UNCHANGED <<rule, last, pred, mut>>

\* "if default_value <= zero_taxed_money(currency)"
EarlyReturn_Never(default_value) == FALSE
EarlyReturn(default_value) == default_value <= 0

\* the sums of the lines' total_price and undiscounted_total_price, in cents
SumTotals(o) ==
    [total |-> Money2(SumSeq([i \in 1..Len(o.lines) |-> o.lines[i].total_price.net])
                          + o.shipping_price.net,
                      SumSeq([i \in 1..Len(o.lines) |-> o.lines[i].total_price.gross])
                          + o.shipping_price.gross),
     undiscounted_subtotal |->
         SumSeq([i \in 1..Len(o.lines) |-> o.lines[i].undiscounted_total_price.gross])]

\* order_discount.amount - undiscounted_subtotal.gross when the manual
\* discount exceeds the undiscounted subtotal, else 0; in halves
RemainingAmount(o, undiscounted_subtotal) ==
    IF o.discount_type = "MANUAL" /\ o.discount_amount > 2 * undiscounted_subtotal
    THEN o.discount_amount - 2 * undiscounted_subtotal ELSE 0

\* quantize_price(max(total, zero_taxed_money(currency)), currency): total in
\* halves; TaxedMoney compares by gross
ClampAndQuantize_NoClamp(net, gross, mode) ==
    Money2(quantize_price(net, 1, mode), quantize_price(gross, 1, mode))
ClampAndQuantize(net, gross, mode) ==
    IF gross >= 0 THEN Money2(quantize_price(net, 1, mode), quantize_price(gross, 1, mode))
    ELSE Money2(0, 0)

_calculate_order_total ==
    /\ order.pc = "shipping"
    /\ LET default_value == base_order_total(order)
           sums == SumTotals(order)
           remaining_amount == RemainingAmount(order, sums.undiscounted_subtotal)
       IN  order' =
               IF EarlyReturn(default_value)
               THEN [order EXCEPT !.pc = "done",
                                  !.total = Money2(quantize_price(2 * default_value, 1, order.rounding),
                                                   quantize_price(2 * default_value, 1, order.rounding))]
               ELSE [order EXCEPT !.pc = "done", !.summed = TRUE,
                                  !.compensated = remaining_amount > 0,
                                  !.total = ClampAndQuantize(
                                                2 * sums.total.net - remaining_amount,
                                                2 * sums.total.gross - remaining_amount,
                                                order.rounding)]
    /\ UNCHANGED <<rule, last, pred, mut>>

NextTax == update_taxes_for_order_lines \/ _calculate_order_shipping \/ _calculate_order_total

SpecTax == InitTax /\ [][NextTax]_vars

----------------------------------------------------------------------------
(* Claims checked under SpecTax                                            *)

LinesUpdated == order.pc \in {"lines", "shipping", "done"}

\* the discount shares given to the lines, in halves
Shares == [i \in 1..Len(order.lines) |-> order.lines[i].discount_amount]

\* C5: after update_taxes_for_order_lines the per-line discount shares sum to
\* exactly the total discount, for every line list, lines without a variant
\* included
C5_SharesSumToTotal ==
    (LinesUpdated /\ \E i \in 1..Len(order.lines) : order.lines[i].processed)
        => SumSeq(Shares) = order.total_discount_amount

\* C6: every line processed by update_taxes_for_order_lines has a discounted
\* unit price, a unit_price and a total_price that are not negative
C6_PricesNonNegative ==
    LinesUpdated =>
        \A i \in 1..Len(order.lines) :
            order.lines[i].processed =>
                /\ order.lines[i].price_with_discounts >= 0
                /\ order.lines[i].unit_price.net >= 0
                /\ order.lines[i].unit_price.gross >= 0
                /\ order.lines[i].total_price.net >= 0
                /\ order.lines[i].total_price.gross >= 0

\* the total discount exceeds the sum of all line totals and a processed line
\* got a share larger than its own total
C6_Witness ==
    /\ order.pc = "lines"
    /\ order.total_discount_amount > 2 * order_total_price(order.lines)
    /\ \E i \in 1..Len(order.lines) :
           /\ order.lines[i].processed
           /\ order.lines[i].discount_amount >
                  2 * order.lines[i].base_unit_price * order.lines[i].quantity
           /\ order.lines[i].price_with_discounts = 0

\* the order's base total in cents: lines plus shipping, no tax
BaseTotal ==
    SumSeq([i \in 1..Len(order.lines) |->
                order.lines[i].base_unit_price * order.lines[i].quantity])
        + order.base_shipping_price

\* C7: when the base total is <= 0 the order total is zero money and neither
\* the summing of the line totals nor the manual-discount compensation ran
C7_ZeroTotalEarlyReturn ==
    (order.pc = "done" /\ BaseTotal <= 0) =>
        /\ order.total = Money2(0, 0)
        /\ ~order.summed
        /\ ~order.compensated

\* a base total of zero on an order that carries a manual discount
C7_Witness ==
    /\ order.pc = "done"
    /\ BaseTotal <= 0
    /\ order.discount_type = "MANUAL"
    /\ order.discount_amount > 0

\* naive sum of the lines' total prices plus the shipping price, in cents
NaiveNet ==
    SumSeq([i \in 1..Len(order.lines) |-> order.lines[i].total_price.net])
        + order.shipping_price.net
NaiveGross ==
    SumSeq([i \in 1..Len(order.lines) |-> order.lines[i].total_price.gross])
        + order.shipping_price.gross

\* what the manual discount exceeds the undiscounted line subtotal by, in halves
Excess ==
    order.discount_amount
        - 2 * SumSeq([i \in 1..Len(order.lines) |->
                          order.lines[i].undiscounted_total_price.gross])

ManualExcess ==
    /\ order.pc = "done"
    /\ BaseTotal > 0
    /\ order.discount_type = "MANUAL"
    /\ Excess > 0

\* C8 as stated: with a manual discount exceeding the undiscounted subtotal by
\* X > 0 and a positive base total, the final total is exactly X lower than
\* the naive sum of line totals plus shipping
C8_ExactlyXLower ==
    ManualExcess => 2 * order.total.gross = 2 * NaiveGross - Excess

\* C8: with a manual discount exceeding the undiscounted subtotal by X > 0 and
\* a positive base total, the final total is the naive sum less X, rounded to
\* the currency precision, and zero when X exceeds the naive gross sum
C8_ClampedReduction ==
    ManualExcess =>
        IF 2 * NaiveGross - Excess >= 0
        THEN /\ order.total.gross = quantize_price(2 * NaiveGross - Excess, 1, order.rounding)
             /\ order.total.net = quantize_price(2 * NaiveNet - Excess, 1, order.rounding)
        ELSE order.total = Money2(0, 0)

\* the compensation ran and the total came out exactly X lower
C8_Witness ==
    /\ ManualExcess
    /\ order.compensated
    /\ 2 * order.total.gross = 2 * NaiveGross - Excess

\* C15: with a total discount > 0 and every line holding a variant, every
\* line's discount share lies between 0 and the total discount, the last
\* line's remainder included, and no line's discounted unit price exceeds its
\* base_unit_price
C15_SharesWithinTotal ==
    (/\ LinesUpdated
     /\ order.total_discount_amount > 0
     /\ \A i \in 1..Len(order.lines) : order.lines[i].variant) =>
        \A i \in 1..Len(order.lines) :
            order.lines[i].processed =>
                /\ order.lines[i].discount_amount >= 0
                /\ order.lines[i].discount_amount <= order.total_discount_amount
                /\ order.lines[i].price_with_discounts <= order.lines[i].base_unit_price

----------------------------------------------------------------------------
(* Further claims about PromotionRuleUpdate, checked under Spec            *)

ChannelErrorCodes == {"MISSING_CHANNELS", "MULTIPLE_CURRENCIES_NOT_ALLOWED"}

\* C12: on update of a stored rule with exactly one non-empty predicate and a
\* reward value, every MISSING_CHANNELS or MULTIPLE_CURRENCIES_NOT_ALLOWED
\* error that clean_promotion_rule records is on a field that is a key of the
\* update input
C12_ChannelErrorsOnInputFields ==
    (/\ last.pc = "validated" /\ last.op = "update"
     /\ ExactlyOne(Truthy(last.before.catalogue_predicate),
                   Truthy(last.before.checkout_and_order_predicate))
     /\ Truthy(last.before.reward_value)) =>
        \A f \in Fields : \A code \in ChannelErrorCodes :
            Recorded(code, f) => f \in last.input.keys

----------------------------------------------------------------------------
(* SpecMut: two PromotionRuleUpdate.perform_mutation calls on one stored   *)
(* rule.  rule is what the database shows to every other connection; a     *)
(* request holds the instance it loaded and the writes of its open         *)
(* transaction.                                                            *)

Requests == {"r1", "r2"}

\* the stored rule the requests start from: a catalogue rule with a reward
StoredRule(reward_value_type, channels) ==
    [exists |-> TRUE, catalogue_predicate |-> CataloguePred,
     checkout_and_order_predicate |-> EmptyDict, reward_type |-> "None",
     reward_value |-> Leaf(10000), reward_value_type |-> reward_value_type,
     channels |-> channels]
StoredRules ==
    {StoredRule("FIXED", {"c1"}), StoredRule("FIXED", {"c1", "c2"}),
     StoredRule("PERCENTAGE", {})}

\* the inputs of a request: reward_value_type, add_channels, remove_channels
MutationInputs ==
    {MakeInput(Absent(PyNone), Absent(PyNone), Absent("None"), Absent(PyNone), rvt,
               Absent({}), add, rem, "None") :
        rvt \in {Absent("None"), Given("FIXED")},
        add \in {Absent({}), Given({"c1"}), Given({"c3"})},
        rem \in {Absent({}), Given({"c1"})}}

NewRequest(input) ==
    [pc |-> "start", input |-> input, instance |-> NoRule, cleaned_input |-> input,
     invalid |-> FALSE, saved |-> FALSE, txn_removed |-> {}, txn_added |-> {},
     m2m_saved |-> FALSE, effects |-> {}]

InitMut ==
    /\ last = Idle /\ pred = Idle /\ order = Idle
    /\ rule \in StoredRules
    /\ mut \in [Requests -> {NewRequest(input) : input \in MutationInputs}]

\* instance = cls.get_instance(info, **data)
get_instance(r) ==
    /\ mut[r].pc = "start"
    /\ mut' = [mut EXCEPT ![r].pc = "got", ![r].instance = rule]
    /\ UNCHANGED <<rule, last, pred, order>>

\* "if error: raise ValidationError" and "if errors: raise ValidationError"
RaisesValidationError_Never(duplicates, errors) == FALSE
RaisesValidationError(duplicates, errors) == duplicates \/ HasErrors(errors)

\* cleaned_input = cls.clean_input(info, instance, data), then
\* construct_instance; instance.channels is read from the database by the
\* validator
clean_input(r) ==
    /\ mut[r].pc = "got"
    /\ \E predicate_type \in UpdatePredicateTypes(mut[r].instance) :
        LET instance == [mut[r].instance EXCEPT !.channels = rule.channels]
            duplicates == check_for_duplicates(mut[r].input)
            res == clean_promotion_rule(mut[r].input, NoErrors, predicate_type, instance)
            errors == IF duplicates THEN NoErrors ELSE res.errors
        IN  mut' = IF RaisesValidationError(duplicates, errors)
                   THEN [mut EXCEPT ![r].pc = "raised", ![r].invalid = TRUE]
                   ELSE [mut EXCEPT ![r].pc = "cleaned",
                                    ![r].invalid = duplicates \/ HasErrors(errors),
                                    ![r].cleaned_input = res.cleaned_input,
                                    ![r].instance =
                                        construct_instance(mut[r].instance, res.cleaned_input)]
    /\ UNCHANGED <<rule, last, pred, order>>

\* cls.save(info, instance, cleaned_input): the row's fields are written from
\* the request's instance; the channels are rows of their own
save(r) ==
    /\ mut[r].pc = "cleaned"
    /\ rule' = [mut[r].instance EXCEPT !.channels = rule.channels]
    /\ mut' = [mut EXCEPT ![r].pc = "saved", ![r].saved = TRUE]
    /\ UNCHANGED <<last, pred, order>>

\* "with transaction.atomic()": what the other connections see of a write
\* made inside the open transaction
VisibleInTransaction_Written(committed, written) == written
VisibleInTransaction(committed, written) == committed

\* "if remove_channels := ...: instance.channels.remove(*remove_channels)"
RemovedChannels(cleaned_data) ==
    IF cleaned_data.remove_channels # {} THEN cleaned_data.remove_channels ELSE {}
\* "if add_channels := ...: instance.channels.add(*add_channels)"
AddedChannels(cleaned_data) ==
    IF cleaned_data.add_channels # {} THEN cleaned_data.add_channels ELSE {}

m2m_remove(r) ==
    /\ mut[r].pc = "saved"
    /\ mut' = [mut EXCEPT ![r].pc = "removed",
                          ![r].txn_removed = RemovedChannels(mut[r].cleaned_input)]
    /\ rule' = [rule EXCEPT !.channels =
                   VisibleInTransaction(rule.channels,
                       rule.channels \ RemovedChannels(mut[r].cleaned_input))]
    /\ UNCHANGED <<last, pred, order>>

m2m_add(r) ==
    /\ mut[r].pc = "removed"
    /\ mut' = [mut EXCEPT ![r].pc = "added",
                          ![r].txn_added = AddedChannels(mut[r].cleaned_input)]
    /\ rule' = [rule EXCEPT !.channels =
                   VisibleInTransaction(rule.channels,
                       rule.channels \cup AddedChannels(mut[r].cleaned_input))]
    /\ UNCHANGED <<last, pred, order>>

\* leaving the atomic block commits the removed and the added rows together
m2m_commit(r) ==
    /\ mut[r].pc = "added"
    /\ mut' = [mut EXCEPT ![r].pc = "committed", ![r].m2m_saved = TRUE]
    /\ rule' = [rule EXCEPT !.channels =
                   (rule.channels \ mut[r].txn_removed) \cup mut[r].txn_added]
    /\ UNCHANGED <<last, pred, order>>

\* the task is queued only "if product_ids"
PostSaveEffects(has_products) ==
    (IF has_products THEN {"update_discounted_prices_task"} ELSE {})
        \cup {"rule_updated_event", "promotion_rule_updated"}

post_save_actions(r) ==
    /\ mut[r].pc = "committed"
    /\ \E has_products \in BOOLEAN :
           mut' = [mut EXCEPT ![r].pc = "done",
                              ![r].effects = PostSaveEffects(has_products)]
    /\ UNCHANGED <<rule, last, pred, order>>

perform_mutation(r) ==
    \/ get_instance(r)
    \/ clean_input(r)
    \/ save(r)
    \/ m2m_remove(r)
    \/ m2m_add(r)
    \/ m2m_commit(r)
    \/ post_save_actions(r)

NextMut == \E r \in Requests : perform_mutation(r)

SpecMut == InitMut /\ [][NextMut]_vars

----------------------------------------------------------------------------
(* Claims checked under SpecMut                                            *)

\* C11: the channel set the other connections see changes only by the whole
\* change of one request, (existing minus removed) union added, at the end of
\* its atomic block; the set after the removal alone is never shown
C11_ChannelChangeAtomic ==
    [][rule'.channels # rule.channels =>
          \E r \in Requests :
              /\ mut[r].pc = "added"
              /\ rule'.channels =
                     (rule.channels \ mut[r].cleaned_input.remove_channels)
                         \cup mut[r].cleaned_input.add_channels]_vars

\* a request has removed the rule's last channel inside its transaction and
\* has a channel to add; the other connections still see the channel
C11_Witness ==
    \E r \in Requests :
        /\ mut[r].pc = "removed"
        /\ mut[r].txn_removed # {}
        /\ rule.channels # {}
        /\ rule.channels \ mut[r].txn_removed = {}
        /\ mut[r].cleaned_input.add_channels # {}

\* what validating the request's input against the stored rule records
InputInvalid(r) == mut[r].invalid

\* C13: the post-save side effects of a request occur only after its rule
\* fields and its channel changes were saved; a request whose input yields a
\* validation error saves nothing, writes no channel and has no side effect
C13_EffectsAfterSave ==
    \A r \in Requests :
        /\ mut[r].effects # {} => (mut[r].saved /\ mut[r].m2m_saved)
        /\ InputInvalid(r) =>
               /\ ~mut[r].saved
               /\ ~mut[r].m2m_saved
               /\ mut[r].txn_removed = {} /\ mut[r].txn_added = {}
               /\ mut[r].effects = {}
               /\ mut[r].pc = "raised"

\* one request was refused and the other was saved and had its side effects
C13_Witness ==
    \E r, q \in Requests :
        /\ mut[r].pc = "raised" /\ mut[r].invalid
        /\ mut[q].pc = "done" /\ mut[q].effects # {}
        /\ mut[q].txn_added # {}

\* C14: when both updates succeeded, none of them removing a channel and each
\* holding reward_value_type in its input, a rule left with a FIXED
\* reward_value_type has channels of a single currency
C14_FixedSingleCurrency ==
    (/\ \A r \in Requests :
            /\ mut[r].pc = "done"
            /\ "reward_value_type" \in mut[r].input.keys
            /\ "remove_channels" \notin mut[r].input.keys
     /\ rule.reward_value_type = "FIXED")
    => Cardinality({currency_code(c) : c \in rule.channels}) <= 1

====
